---------------------------- MODULE Spec2Model ----------------------------
(***************************************************************************)
(* Model of mcp-inotes: the NotesService AppleScript wrapper               *)
(* (src/src/notes_service.py) and the FastMCP tool get_notes_list          *)
(* (src/src/server.py).                                                    *)
(*                                                                         *)
(* A text is a sequence of one-character strings.  The fixed wording of a  *)
(* message or of a formatted line is held as one element of such a         *)
(* sequence (a chunk), since only the embedded values are ever inspected.  *)
(***************************************************************************)
EXTENDS Integers, Sequences, FiniteSets, TLC

VARIABLES
    notes,     \* the Notes application's store: a sequence of note records
    call,      \* the operation being run (or last run) and its arguments
    proc,      \* subprocess.run's result: returncode, stdout, stderr
    result,    \* what the operation returned or raised
    pc,        \* position inside an operation that takes several steps
    acc        \* the local value such an operation is working on

vars == <<notes, call, proc, result, pc, acc>>

---------------------------------------------------------------------------
(* Characters and Python's str methods                                     *)

BS == "\\"
DQ == "\""
NL == "\n"
BR == <<"<", "b", "r", ">">>
FD == <<"|", "~", "|">>
RD == <<"|", "|">>
FOLDER == <<"Claude Diary">>
Whitespace == {" ", "\n", "\t", "\r"}
None == <<"None">>

Drop(s, n) == SubSeq(s, n + 1, Len(s))


(* str.find: the index of the first occurrence of sub in s, or 0 *)
Find(s, sub) ==
    LET at == {i \in 1..(Len(s) - Len(sub) + 1) :
                  SubSeq(s, i, i + Len(sub) - 1) = sub}
    IN IF at = {} THEN 0 ELSE CHOOSE i \in at : \A j \in at : i <= j

(* str.replace: occurrences are taken left to right and do not overlap *)
RECURSIVE Replace(_, _, _)
Replace(s, old, new) ==
    LET i == Find(s, old)
    IN IF i = 0 THEN s
       ELSE SubSeq(s, 1, i - 1) \o new
            \o Replace(Drop(s, i + Len(old) - 1), old, new)

(* str.split(sep): likewise; a text with no occurrence is one part *)
RECURSIVE Split(_, _)
Split(s, sep) ==
    LET i == Find(s, sep)
    IN IF i = 0 THEN <<s>>
       ELSE <<SubSeq(s, 1, i - 1)>> \o Split(Drop(s, i + Len(sep) - 1), sep)

RECURSIVE LStrip(_)
LStrip(s) == IF s # <<>> /\ Head(s) \in Whitespace THEN LStrip(Tail(s)) ELSE s

RECURSIVE RStrip(_)
RStrip(s) ==
    IF s # <<>> /\ s[Len(s)] \in Whitespace
    THEN RStrip(SubSeq(s, 1, Len(s) - 1)) ELSE s

Strip(s) == RStrip(LStrip(s))

(* sep.join(parts) *)
RECURSIVE Join(_, _)
Join(parts, sep) ==
    IF parts = <<>> THEN <<>>
    ELSE IF Len(parts) = 1 THEN parts[1]
    ELSE LET half == Len(parts) \div 2
         IN Join(SubSeq(parts, 1, half), sep) \o sep
            \o Join(SubSeq(parts, half + 1, Len(parts)), sep)

DigitChar == <<"0", "1", "2", "3", "4", "5", "6", "7", "8", "9">>

RECURSIVE Str(_)
Str(n) == IF n < 10 THEN <<DigitChar[n + 1]>>
          ELSE Str(n \div 10) \o <<DigitChar[(n % 10) + 1]>>

---------------------------------------------------------------------------
(* The escaper: the chained str.replace calls of NotesService               *)

EscapeBackslash(s) == Replace(s, <<BS>>, <<BS, BS>>)
EscapeQuote(s) == Replace(s, <<DQ>>, <<BS, DQ>>)
NewlineToBreak(s) == Replace(s, <<NL>>, BR)

EscapeIdQuoteFirst(s) == EscapeBackslash(EscapeQuote(s))

EscapeId(s) == EscapeQuote(EscapeBackslash(s))

EscapeBody(s) == NewlineToBreak(EscapeQuote(EscapeBackslash(s)))

(* How the interpreter reads the text that follows an opening double quote *)
(* of the script: up to the first double quote that no backslash escapes.  *)
Unescaped == [c \in {BS, DQ, "n", "t", "r"} |->
                 CASE c = "n" -> NL
                   [] c = "t" -> "\t"
                   [] c = "r" -> "\r"
                   [] OTHER -> c]

RECURSIVE ReadLiteral(_, _)
ReadLiteral(t, val) ==
    IF t = <<>> THEN [closed |-> FALSE, value |-> val, rest |-> <<>>]
    ELSE IF Head(t) = DQ THEN [closed |-> TRUE, value |-> val, rest |-> Tail(t)]
    ELSE IF Head(t) = BS
         THEN IF Len(t) >= 2 /\ t[2] \in DOMAIN Unescaped
              THEN ReadLiteral(Drop(t, 2), val \o <<Unescaped[t[2]]>>)
              ELSE [closed |-> FALSE, value |-> val, rest |-> Tail(t)]
    ELSE ReadLiteral(Tail(t), val \o <<Head(t)>>)

(* A slot "{x}" of a script template: the embedded text followed by the    *)
(* template's closing quote.  The slot is intact when the literal closes   *)
(* exactly at that quote.                                                  *)
Slot(embedded) == ReadLiteral(embedded \o <<DQ>>, <<>>)
Intact(lit) == lit.closed /\ lit.rest = <<>>

---------------------------------------------------------------------------
(* Bounded texts                                                           *)

RECURSIVE TextsOver(_, _)
TextsOver(alphabet, n) ==
    IF n = 0 THEN {<<>>}
    ELSE LET shorter == TextsOver(alphabet, n - 1)
         IN shorter \cup {Append(s, c) : s \in shorter, c \in alphabet}

MaxEscLen == 3
EscAlphabet == {BS, DQ, "a", "n"}
EscInputs == TextsOver(EscAlphabet, MaxEscLen)

Idle == [op |-> "none"]
NoProc == [returncode |-> 0, stdout |-> <<>>, stderr |-> <<>>]
NoResult == [raised |-> FALSE, msg |-> <<>>, value |-> None]

---------------------------------------------------------------------------
(* SpecEsc: an identifier or title is escaped, embedded, and read back     *)

InitEsc ==
    /\ notes = <<>>
    /\ call \in {[op |-> "escape", text |-> s] : s \in EscInputs}
    /\ proc = NoProc
    /\ result = NoResult
    /\ pc = "raw"
    /\ acc = <<>>

Embed ==
    /\ pc = "raw"
    /\ acc' = EscapeId(call.text)
    /\ pc' = "embedded"
    /\ UNCHANGED <<notes, call, proc, result>>

Interpret ==
    /\ pc = "embedded"
    /\ acc' = Slot(acc)
    /\ pc' = "read"
    /\ UNCHANGED <<notes, call, proc, result>>

NextEsc == Embed \/ Interpret

SpecEsc == InitEsc /\ [][NextEsc]_vars

RECURSIVE BackslashRunBefore(_, _)
BackslashRunBefore(s, i) ==
    IF i >= 1 /\ s[i] = BS THEN 1 + BackslashRunBefore(s, i - 1) ELSE 0

(* C3: escaping round-trips.  The escaped text has every double quote      *)
(* preceded by an odd run of backslashes and ends in an even run, and the  *)
(* literal read back closes at the template's quote with the original text.*)
EscapeRoundTrip ==
    /\ pc = "embedded" =>
         /\ \A i \in 1..Len(acc) :
               acc[i] = DQ => BackslashRunBefore(acc, i - 1) % 2 = 1
         /\ BackslashRunBefore(acc, Len(acc)) % 2 = 0
    /\ pc = "read" => Intact(acc) /\ acc.value = call.text

EscapeRoundTripWitness ==
    /\ pc = "read"
    /\ call.text = <<BS, DQ, "n">>
    /\ acc.value = call.text

---------------------------------------------------------------------------
(* The script templates.  A script is held as its template's name, the     *)
(* container its text names (Application when it names no folder), and the *)
(* escaped text placed in each slot.                                       *)

Application == <<>>

create_script(title, body) ==
    [template |-> "create", container |-> FOLDER,
     name |-> EscapeId(title), body |-> EscapeBody(body)]

get_script(note_id) ==
    [template |-> "fetch", container |-> Application, id |-> EscapeId(note_id)]

append_script(note_id, content) ==
    [template |-> "append", container |-> Application,
     id |-> EscapeId(note_id), content |-> EscapeBody(content)]

list_script ==
    [template |-> "list", container |-> FOLDER]

AppendedBodyOverwrites(old, content) == BR \o BR \o content

(* set body of theNote to (body of theNote) & "<br><br>{content}" *)
AppendedBody(old, content) == old \o BR \o BR \o content

---------------------------------------------------------------------------
(* The Notes application running a script against its store                *)

Stamp0 == <<"t", "0">>
Stamp1 == <<"t", "1">>
SyntaxError == <<"syntax error", NL>>
NotFound == <<"execution error: Can't get note id", NL>>

Failed(store, text) ==
    [returncode |-> 1, stdout |-> <<>>, stderr |-> text, notes |-> store]

Printed(store, text) ==
    [returncode |-> 0, stdout |-> text \o <<NL>>, stderr |-> <<>>, notes |-> store]

(* The notes a script can address: every note when it names no folder. *)
InScope(script, store) ==
    {i \in 1..Len(store) :
        script.container = Application \/ store[i].folder = script.container}

Lookup(script, store, id) ==
    {i \in InScope(script, store) : store[i].id = id}

NewId(store) == <<"x">> \o Str(Len(store) + 1)

FetchFields(n) == <<n.id, n.name, n.body, n.created, n.modified>>
ListFields(n) == <<n.id, n.name, n.created, n.modified>>

FolderNotes(store, folder) ==
    LET InFolder(n) == n.folder = folder
    IN SelectSeq(store, InFolder)

EachAsText(ns) == [i \in 1..Len(ns) |-> Join(ListFields(ns[i]), FD)]

RunCreate(script, store) ==
    LET name == Slot(script.name)
        body == Slot(script.body)
        new  == [id |-> NewId(store), folder |-> script.container,
                 name |-> name.value, body |-> body.value,
                 created |-> Stamp0, modified |-> Stamp0]
    IN IF ~(Intact(name) /\ Intact(body)) THEN Failed(store, SyntaxError)
       ELSE Printed(Append(store, new), new.id)

RunFetch(script, store) ==
    LET id  == Slot(script.id)
        hit == Lookup(script, store, id.value)
    IN IF ~Intact(id) THEN Failed(store, SyntaxError)
       ELSE IF hit = {} THEN Failed(store, NotFound)
       ELSE LET i == CHOOSE j \in hit : \A k \in hit : j <= k
            IN Printed(store, Join(FetchFields(store[i]), FD))

RunAppend(script, store) ==
    LET id      == Slot(script.id)
        content == Slot(script.content)
        hit     == Lookup(script, store, id.value)
    IN IF ~(Intact(id) /\ Intact(content)) THEN Failed(store, SyntaxError)
       ELSE IF hit = {} THEN Failed(store, NotFound)
       ELSE LET i == CHOOSE j \in hit : \A k \in hit : j <= k
                n == [store[i] EXCEPT
                        !.body = AppendedBody(store[i].body, content.value),
                        !.modified = Stamp1]
            IN Printed([store EXCEPT ![i] = n], <<>>)

RunList(script, store) ==
    Printed(store, Join(EachAsText(FolderNotes(store, script.container)), RD))

osascript(script, store) ==
    CASE script.template = "create" -> RunCreate(script, store)
      [] script.template = "fetch"  -> RunFetch(script, store)
      [] script.template = "append" -> RunAppend(script, store)
      [] script.template = "list"   -> RunList(script, store)

Captured(run) ==
    [returncode |-> run.returncode, stdout |-> run.stdout, stderr |-> run.stderr]

---------------------------------------------------------------------------
(* What each NotesService method does with the captured process result     *)

Raise(text) == [raised |-> TRUE, msg |-> text, value |-> None]
Return(v) == [raised |-> FALSE, msg |-> <<>>, value |-> v]

create_note_return(p) ==
    IF p.returncode # 0
    THEN Raise(<<"Failed to create note: ">> \o p.stderr)
    ELSE Return(Strip(p.stdout))

get_note_off_by_one(p) ==
    IF p.returncode # 0
    THEN Raise(<<"Failed to get note: ">> \o p.stderr)
    ELSE LET parts == Split(Strip(p.stdout), FD)
         IN IF Len(parts) <= 5
            THEN Raise(<<"Invalid response from AppleScript">>)
            ELSE Return([id |-> parts[1], name |-> parts[2], body |-> parts[3],
                         creation_date |-> parts[4],
                         modification_date |-> parts[5]])

get_note_return(p) ==
    IF p.returncode # 0
    THEN Raise(<<"Failed to get note: ">> \o p.stderr)
    ELSE LET parts == Split(Strip(p.stdout), FD)
         IN IF Len(parts) < 5
            THEN Raise(<<"Invalid response from AppleScript">>)
            ELSE Return([id |-> parts[1], name |-> parts[2], body |-> parts[3],
                         creation_date |-> parts[4],
                         modification_date |-> parts[5]])

append_to_note_return(p) ==
    IF p.returncode # 0
    THEN Raise(<<"Failed to append to note: ">> \o p.stderr)
    ELSE Return(None)

Summary(parts) ==
    [id |-> parts[1], name |-> parts[2],
     creation_date |-> parts[3], modification_date |-> parts[4]]

DecodeSegmentStrict(note_str, decoded) ==
    IF note_str = <<>> THEN decoded
    ELSE LET parts == Split(note_str, FD)
         IN IF Len(parts) >= 5 THEN Append(decoded, Summary(parts)) ELSE decoded

(* One pass of the loop body: skip an empty segment, keep one of >= 4 parts *)
DecodeSegment(note_str, decoded) ==
    IF note_str = <<>> THEN decoded
    ELSE LET parts == Split(note_str, FD)
         IN IF Len(parts) >= 4 THEN Append(decoded, Summary(parts)) ELSE decoded

(* for note_str in output.split("||"): what the loop appends over a       *)
(* sequence is what it appends over the first half, then over the second.  *)
RECURSIVE DecodeLoop(_)
DecodeLoop(segments) ==
    IF segments = <<>> THEN <<>>
    ELSE IF Len(segments) = 1 THEN DecodeSegment(segments[1], <<>>)
    ELSE LET half == Len(segments) \div 2
         IN DecodeLoop(SubSeq(segments, 1, half))
            \o DecodeLoop(SubSeq(segments, half + 1, Len(segments)))

get_notes_list_empty_raises(p) ==
    IF p.returncode # 0
    THEN Raise(<<"Failed to get notes: ">> \o p.stderr)
    ELSE LET output == Strip(p.stdout)
         IN IF output = <<>> THEN Raise(<<"Invalid response from AppleScript">>)
            ELSE Return(DecodeLoop(Split(output, RD)))

get_notes_list_ignores_status(p) ==
    LET output == Strip(p.stdout)
    IN IF output = <<>> THEN Return(<<>>)
       ELSE Return(DecodeLoop(Split(output, RD)))

get_notes_list_return(p) ==
    IF p.returncode # 0
    THEN Raise(<<"Failed to get notes: ">> \o p.stderr)
    ELSE LET output == Strip(p.stdout)
         IN IF output = <<>> THEN Return(<<>>)
            ELSE Return(DecodeLoop(Split(output, RD)))

---------------------------------------------------------------------------
(* Spec: the four NotesService methods called one after another against    *)
(* the Notes application                                                   *)

MaxNotes == 3
MaxStoreChars == 28

Titles == {<<"a">>, <<"a", "|">>, <<DQ>>}
Bodies == {<<"a", NL>>}
Contents == {<<"a">>, <<BS, DQ>>, <<NL>>, <<BS, "n">>}
DateInputs == {None, <<"2026-01-01">>}
OtherFolder == <<"Other">>
OtherNote ==
    [id |-> <<"x", "1">>, folder |-> OtherFolder, name |-> <<"b">>,
     body |-> <<"b">>, created |-> Stamp0, modified |-> Stamp0]

RECURSIVE StoreChars(_)
StoreChars(store) ==
    IF store = <<>> THEN 0 ELSE Len(Head(store).body) + StoreChars(Tail(store))

IdInputs(store) == {store[i].id : i \in 1..Len(store)} \cup {<<"x", DQ>>}

Init ==
    /\ notes = <<OtherNote>>
    /\ call = Idle
    /\ proc = NoProc
    /\ result = NoResult
    /\ pc = "idle"
    /\ acc = <<>>

create_note ==
    \E title \in Titles, body \in Bodies :
        LET run == osascript(create_script(title, body), notes)
        IN /\ Len(notes) < MaxNotes
           /\ StoreChars(run.notes) <= MaxStoreChars
           /\ call' = [op |-> "create_note", title |-> title, body |-> body]
           /\ notes' = run.notes
           /\ proc' = Captured(run)
           /\ result' = create_note_return(Captured(run))
           /\ UNCHANGED <<pc, acc>>

get_note ==
    \E note_id \in IdInputs(notes) :
        LET run == osascript(get_script(note_id), notes)
        IN /\ call' = [op |-> "get_note", note_id |-> note_id]
           /\ notes' = run.notes
           /\ proc' = Captured(run)
           /\ result' = get_note_return(Captured(run))
           /\ UNCHANGED <<pc, acc>>

append_to_note ==
    \E note_id \in IdInputs(notes), content \in Contents :
        LET run == osascript(append_script(note_id, content), notes)
        IN /\ StoreChars(run.notes) <= MaxStoreChars
           /\ call' = [op |-> "append_to_note", note_id |-> note_id,
                       content |-> content]
           /\ notes' = run.notes
           /\ proc' = Captured(run)
           /\ result' = append_to_note_return(Captured(run))
           /\ UNCHANGED <<pc, acc>>

get_notes_list ==
    \E start_date \in DateInputs, end_date \in DateInputs :
        LET run == osascript(list_script, notes)
        IN /\ call' = [op |-> "get_notes_list", start_date |-> start_date,
                       end_date |-> end_date]
           /\ notes' = run.notes
           /\ proc' = Captured(run)
           /\ result' = get_notes_list_return(Captured(run))
           /\ UNCHANGED <<pc, acc>>

Next == create_note \/ get_note \/ append_to_note \/ get_notes_list

Spec == Init /\ [][Next]_vars

IsPrefix(p, s) == Len(p) <= Len(s) /\ SubSeq(s, 1, Len(p)) = p

RECURSIVE WithBreaks(_)
WithBreaks(s) ==
    IF s = <<>> THEN <<>>
    ELSE (IF Head(s) = NL THEN <<"<", "b", "r", ">">> ELSE <<Head(s)>>)
         \o WithBreaks(Tail(s))

(* C1: append is append-only.  A successful append_to_note(id, content)    *)
(* leaves the note's body equal to the old body, then "<br><br>", then the *)
(* content with each newline replaced by "<br>"; and in every step of every *)
(* operation each existing note keeps its old body as a prefix of its body. *)
AppendOnly ==
    [][ /\ \A i \in 1..Len(notes) :
              /\ i <= Len(notes')
              /\ notes'[i].id = notes[i].id
              /\ IsPrefix(notes[i].body, notes'[i].body)
              /\ Len(notes'[i].body) >= Len(notes[i].body)
        /\ (call'.op = "append_to_note" /\ ~result'.raised) =>
              \E i \in 1..Len(notes) :
                 /\ notes[i].id = call'.note_id
                 /\ notes'[i].body =
                       notes[i].body \o <<"<", "b", "r", ">", "<", "b", "r", ">">>
                                     \o WithBreaks(call'.content)
      ]_vars

AppendOnlyWitness ==
    /\ call.op = "append_to_note"
    /\ ~result.raised
    /\ call.content = <<BS, DQ>>
    /\ \E i \in 1..Len(notes) :
          /\ notes[i].id = call.note_id
          /\ notes[i].body = <<"a", "<", "b", "r", ">">>
                \o BR \o BR \o BR \o BR \o BR \o <<BS, DQ>>

ScriptOf(c) ==
    CASE c.op = "create_note"    -> create_script(c.title, c.body)
      [] c.op = "get_note"       -> get_script(c.note_id)
      [] c.op = "append_to_note" -> append_script(c.note_id, c.content)
      [] c.op = "get_notes_list" -> list_script

(* C2: every operation is scoped to the container "Claude Diary".  The     *)
(* script built for a call names that container, a note stored in another  *)
(* folder is never changed, and get_note never returns such a note.        *)
ScopedToFolder ==
    /\ call.op # "none" => ScriptOf(call).container = FOLDER
    /\ \A i \in 1..Len(notes) :
          notes[i].folder # FOLDER => notes[i] = OtherNote
    /\ (call.op = "get_note" /\ ~result.raised) =>
          \A i \in 1..Len(notes) :
             notes[i].id = result.value.id => notes[i].folder = FOLDER

Contains(s, sub) ==
    \E i \in 1..(Len(s) - Len(sub) + 1) : SubSeq(s, i, i + Len(sub) - 1) = sub

NoDelimiter(field) == ~Contains(field, FD) /\ ~Contains(field, RD)

RECURSIVE Summaries(_)
Summaries(ns) ==
    IF ns = <<>> THEN <<>>
    ELSE <<Summary(ListFields(Head(ns)))>> \o Summaries(Tail(ns))

(* C8: the two-delimiter encoding of a list is unambiguous.  When no field *)
(* of a listed note contains "|~|" or "||", get_notes_list returns exactly *)
(* the records of the folder's notes, field for field, in order.           *)
ListRoundTrip ==
    LET listed == FolderNotes(notes, FOLDER)
    IN (/\ call.op = "get_notes_list"
        /\ ~result.raised
        /\ \A i \in 1..Len(listed) :
              \A k \in 1..4 : NoDelimiter(ListFields(listed[i])[k]))
       => result.value = Summaries(listed)

---------------------------------------------------------------------------
(* SpecBridge: each NotesService method against whatever the interpreter   *)
(* process may hand back: any exit status, any output, any error text      *)

MaxSegments == 3

Segments ==
    {<<>>,
     <<"a">>,
     Join(<<<<"a">>, <<"b">>, <<"c">>>>, FD),
     Join(<<<<"p">>, <<"q">>, <<"r">>, <<"s">>>>, FD),
     Join(<<<<"e">>, <<"f">>, <<"g">>, <<"h">>, <<"i">>>>, FD),
     Join(<<<<>>, <<"n">>, <<"c">>, <<>>>>, FD)}

RECURSIVE SegmentSeqs(_)
SegmentSeqs(n) ==
    IF n = 0 THEN {<<>>}
    ELSE LET shorter == SegmentSeqs(n - 1)
         IN shorter \cup {Append(ss, g) : ss \in shorter, g \in Segments}

Paddings == {<<<<>>, <<>>>>, <<<<>>, <<NL>>>>, <<<<" ">>, <<" ", NL>>>>}

Outputs ==
    {pad[1] \o Join(ss, RD) \o pad[2] :
        ss \in SegmentSeqs(MaxSegments), pad \in Paddings}

ErrorTexts == {<<>>, <<" ", "e", NL>>}

ExitStatuses == {0, 1}

Completed(rc, out, err) == [returncode |-> rc, stdout |-> out, stderr |-> err]

InitBridge ==
    /\ notes = <<>>
    /\ call = Idle
    /\ proc = NoProc
    /\ result = NoResult
    /\ pc = "idle"
    /\ acc = <<>>

create_note_given ==
    /\ pc = "idle"
    /\ \E rc \in ExitStatuses, out \in Outputs, err \in ErrorTexts :
        /\ pc' = "returned"
        /\ call' = [op |-> "create_note", title |-> <<"a">>, body |-> <<"a">>]
        /\ proc' = Completed(rc, out, err)
        /\ result' = create_note_return(Completed(rc, out, err))
        /\ UNCHANGED <<notes, acc>>

get_note_given ==
    /\ pc = "idle"
    /\ \E rc \in ExitStatuses, out \in Outputs, err \in ErrorTexts :
        /\ pc' = "returned"
        /\ call' = [op |-> "get_note", note_id |-> <<"x", "1">>]
        /\ proc' = Completed(rc, out, err)
        /\ result' = get_note_return(Completed(rc, out, err))
        /\ UNCHANGED <<notes, acc>>

append_to_note_given ==
    /\ pc = "idle"
    /\ \E rc \in ExitStatuses, out \in Outputs, err \in ErrorTexts :
        /\ pc' = "returned"
        /\ call' = [op |-> "append_to_note", note_id |-> <<"x", "1">>,
                    content |-> <<"a">>]
        /\ proc' = Completed(rc, out, err)
        /\ result' = append_to_note_return(Completed(rc, out, err))
        /\ UNCHANGED <<notes, acc>>

get_notes_list_given ==
    /\ pc = "idle"
    /\ \E rc \in ExitStatuses, out \in Outputs, err \in ErrorTexts,
          start_date \in DateInputs, end_date \in DateInputs :
        /\ pc' = "returned"
        /\ call' = [op |-> "get_notes_list", start_date |-> start_date,
                    end_date |-> end_date]
        /\ proc' = Completed(rc, out, err)
        /\ result' = get_notes_list_return(Completed(rc, out, err))
        /\ UNCHANGED <<notes, acc>>

(* The tool returns to its caller; the next call starts afresh. *)
returned ==
    /\ pc = "returned"
    /\ pc' = "idle"
    /\ call' = Idle
    /\ proc' = NoProc
    /\ result' = NoResult
    /\ UNCHANGED <<notes, acc>>

NextBridge ==
    \/ returned
    \/ create_note_given
    \/ get_note_given
    \/ append_to_note_given
    \/ get_notes_list_given

SpecBridge == InitBridge /\ [][NextBridge]_vars

FailurePrefix ==
    [op \in {"create_note", "get_note", "append_to_note", "get_notes_list"} |->
        CASE op = "create_note"    -> "Failed to create note: "
          [] op = "get_note"       -> "Failed to get note: "
          [] op = "append_to_note" -> "Failed to append to note: "
          [] op = "get_notes_list" -> "Failed to get notes: "]

FailurePrefixes == {FailurePrefix[op] : op \in DOMAIN FailurePrefix}

(* C4: for each of the four operations, a non-zero exit status makes the   *)
(* operation raise an error carrying the captured error text unchanged,    *)
(* with no result and nothing taken from standard output; a zero exit      *)
(* status never raises an external-tool failure.                           *)
ExitStatusDecides ==
    call.op # "none" =>
        /\ proc.returncode # 0 =>
              /\ result.raised
              /\ result.value = None
              /\ result.msg = <<FailurePrefix[call.op]>> \o proc.stderr
        /\ proc.returncode = 0 =>
              ~(result.raised /\ Head(result.msg) \in FailurePrefixes)

ExitStatusDecidesWitness ==
    /\ call.op = "get_notes_list"
    /\ proc.returncode # 0
    /\ proc.stderr = <<" ", "e", NL>>
    /\ Len(Split(Strip(proc.stdout), RD)) = 3
    /\ result.raised

FetchKeys == {"id", "name", "body", "creation_date", "modification_date"}

(* C5: when the interpreter exits with status zero, get_note raises a      *)
(* decode failure if the trimmed output has fewer than 5 parts between     *)
(* "|~|" delimiters, and otherwise returns a record with exactly the five  *)
(* keys, taken in order from parts 1 to 5.                                 *)
FetchDecodes ==
    (call.op = "get_note" /\ proc.returncode = 0) =>
        LET parts == Split(Strip(proc.stdout), FD)
        IN IF Len(parts) < 5
           THEN /\ result.raised
                /\ result.value = None
                /\ result.msg = <<"Invalid response from AppleScript">>
           ELSE /\ ~result.raised
                /\ DOMAIN result.value = FetchKeys
                /\ result.value.id = parts[1]
                /\ result.value.name = parts[2]
                /\ result.value.body = parts[3]
                /\ result.value.creation_date = parts[4]
                /\ result.value.modification_date = parts[5]

FetchDecodesWitness ==
    /\ call.op = "get_note"
    /\ proc.returncode = 0
    /\ proc.stdout = <<"e", "|", "~", "|", "f", "|", "~", "|", "g", "|", "~", "|",
                       "h", "|", "~", "|", "i", NL>>
    /\ ~result.raised
    /\ result.value.body = <<"g">>
    /\ result.value.modification_date = <<"i">>

(* C6: when the interpreter exits with status zero and its output is empty *)
(* or only whitespace, get_notes_list returns the empty list and raises    *)
(* nothing, whatever start_date and end_date are.                          *)
EmptyListing ==
    (/\ call.op = "get_notes_list"
     /\ proc.returncode = 0
     /\ \A i \in 1..Len(proc.stdout) : proc.stdout[i] \in Whitespace)
    => (~result.raised /\ result.value = <<>>)

EmptyListingWitness ==
    /\ call.op = "get_notes_list"
    /\ call.start_date # None
    /\ call.end_date # None
    /\ proc.returncode = 0
    /\ proc.stdout = <<" ", " ", NL>>
    /\ result = Return(<<>>)

WellFormed(segment) == segment # <<>> /\ Len(Split(segment, FD)) >= 4

SummaryKeys == {"id", "name", "creation_date", "modification_date"}

(* C10: when the trimmed output of the list script is not empty,           *)
(* get_notes_list returns, in the order of the "||"-separated segments,    *)
(* one summary record (the first four "|~|" parts, no body key) for each   *)
(* segment that is not empty and has at least 4 parts; every other segment *)
(* is dropped and the call does not fail.                                  *)
TolerantDecoding ==
    (/\ call.op = "get_notes_list"
     /\ proc.returncode = 0
     /\ Strip(proc.stdout) # <<>>)
    => LET kept == SelectSeq(Split(Strip(proc.stdout), RD), WellFormed)
       IN /\ ~result.raised
          /\ Len(result.value) = Len(kept)
          /\ \A i \in 1..Len(kept) :
                LET parts == Split(kept[i], FD)
                IN /\ DOMAIN result.value[i] = SummaryKeys
                   /\ result.value[i].id = parts[1]
                   /\ result.value[i].name = parts[2]
                   /\ result.value[i].creation_date = parts[3]
                   /\ result.value[i].modification_date = parts[4]

TolerantDecodingWitness ==
    /\ call.op = "get_notes_list"
    /\ proc.returncode = 0
    /\ proc.stdout =
          Join(<<Join(<<<<"p">>, <<"q">>, <<"r">>, <<"s">>>>, FD),
                 Join(<<<<"a">>, <<"b">>, <<"c">>>>, FD),
                 Join(<<<<"e">>, <<"f">>, <<"g">>, <<"h">>, <<"i">>>>, FD)>>, RD)
          \o <<NL>>
    /\ Len(result.value) = 2
    /\ result.value[1].id = <<"p">>
    /\ result.value[2].id = <<"e">>

---------------------------------------------------------------------------
(* SpecConc: two callers run append_to_note on the same note at once.      *)
(* Each interpreter process first evaluates (body of theNote) and then     *)
(* sets the body; nothing in NotesService orders the two processes.        *)

Callers == {1, 2}
DiaryNote ==
    [id |-> <<"x", "1">>, folder |-> FOLDER, name |-> <<"a">>,
     body |-> <<"a">>, created |-> Stamp0, modified |-> Stamp0]

InitConc ==
    /\ notes = <<DiaryNote>>
    /\ call \in [Callers -> {[op |-> "append_to_note", note_id |-> DiaryNote.id,
                              content |-> c] : c \in Contents}]
    /\ proc = [t \in Callers |-> NoProc]
    /\ result = [t \in Callers |-> NoResult]
    /\ pc = [t \in Callers |-> "start"]
    /\ acc = [t \in Callers |-> <<>>]

(* (body of theNote): the interpreter fetches the current body *)
read_body(t) ==
    LET script == append_script(call[t].note_id, call[t].content)
        hit    == Lookup(script, notes, Slot(script.id).value)
    IN /\ pc[t] = "start"
       /\ hit # {}
       /\ acc' = [acc EXCEPT ![t] = notes[CHOOSE i \in hit : TRUE].body]
       /\ pc' = [pc EXCEPT ![t] = "read"]
       /\ UNCHANGED <<notes, call, proc, result>>

(* set body of theNote to ...: the interpreter stores what it computed *)
write_body(t) ==
    LET script == append_script(call[t].note_id, call[t].content)
        hit    == Lookup(script, notes, Slot(script.id).value)
        i      == CHOOSE j \in hit : TRUE
        done   == Printed(notes, <<>>)
    IN /\ pc[t] = "read"
       /\ hit # {}
       /\ notes' = [notes EXCEPT
                      ![i].body = AppendedBody(acc[t], Slot(script.content).value),
                      ![i].modified = Stamp1]
       /\ proc' = [proc EXCEPT ![t] = Captured(done)]
       /\ result' = [result EXCEPT ![t] = append_to_note_return(Captured(done))]
       /\ pc' = [pc EXCEPT ![t] = "done"]
       /\ UNCHANGED <<call, acc>>

NextConc == \E t \in Callers : read_body(t) \/ write_body(t)

SpecConc == InitConc /\ [][NextConc]_vars

(* C9: concurrent appends never delete or overwrite.  Once a caller's      *)
(* append has completed, the note body still starts with the original body *)
(* and contains "<br><br>" followed by that caller's content.              *)
ConcurrentAppendsKept ==
    \A t \in Callers :
        (pc[t] = "done" /\ ~result[t].raised) =>
            /\ IsPrefix(DiaryNote.body, notes[1].body)
            /\ Contains(notes[1].body,
                        BR \o BR \o WithBreaks(call[t].content))

---------------------------------------------------------------------------
(* SpecList: the MCP tool get_notes_list of server.py, over a folder that  *)
(* holds any number of notes                                               *)

MaxRecords == 75
MaxListed == 50

Record(k) ==
    [id |-> <<"x">> \o Str(k), folder |-> FOLDER, name |-> <<"n">> \o Str(k),
     body |-> <<"b">>, created |-> Stamp0, modified |-> Stamp1]

Stored(n) == [k \in 1..n |-> Record(k)]

TruncateNever(listed) == listed

(* notes = notes[:50] *)
Truncate(listed) ==
    SubSeq(listed, 1, IF Len(listed) < MaxListed THEN Len(listed) ELSE MaxListed)

Header(listed) ==
    <<"Found ">> \o Str(Len(listed)) \o <<" note(s) in Claude Diary:", NL>>

Entry(i, note) ==
    << Str(i) \o <<".", " ", DQ>> \o note.name \o <<DQ>>,
       <<"   ID: ">> \o note.id,
       <<"   Created: ">> \o note.creation_date,
       <<"   Modified: ">> \o note.modification_date,
       <<>> >>

InitList ==
    /\ notes \in {Stored(n) : n \in 0..MaxRecords}
    /\ call = Idle
    /\ proc = NoProc
    /\ result = NoResult
    /\ pc = "idle"
    /\ acc = <<>>

tool_get_notes_list ==
    /\ pc = "idle"
    /\ \E start_date \in DateInputs, end_date \in DateInputs :
          LET run    == osascript(list_script, notes)
              listed == get_notes_list_return(Captured(run))
          IN /\ call' = [op |-> "get_notes_list", start_date |-> start_date,
                         end_date |-> end_date]
             /\ proc' = Captured(run)
             /\ IF listed.raised
                THEN /\ result' = Return(<<"Error getting notes: ">> \o listed.msg)
                     /\ pc' = "done"
                     /\ acc' = acc
                ELSE IF listed.value = <<>>
                THEN /\ result' = Return(<<"No notes found in Claude Diary folder">>)
                     /\ pc' = "done"
                     /\ acc' = acc
                ELSE /\ result' = result
                     /\ pc' = "format"
                     /\ acc' = [notes |-> Truncate(listed.value), i |-> 1,
                                output |-> <<Header(Truncate(listed.value))>>]
             /\ UNCHANGED notes

(* one pass of: for i, note in enumerate(notes, 1) *)
tool_format_entry ==
    /\ pc = "format"
    /\ acc.i <= Len(acc.notes)
    /\ acc' = [acc EXCEPT !.i = @ + 1,
                          !.output = @ \o Entry(acc.i, acc.notes[acc.i])]
    /\ UNCHANGED <<notes, call, proc, result, pc>>

tool_return ==
    /\ pc = "format"
    /\ acc.i > Len(acc.notes)
    /\ result' = Return(Join(acc.output, <<NL>>))
    /\ pc' = "done"
    /\ UNCHANGED <<notes, call, proc, acc>>

NextList == tool_get_notes_list \/ tool_format_entry \/ tool_return

SpecList == InitList /\ [][NextList]_vars

(* C7: list truncation.  With n notes in the folder, the text the tool     *)
(* returns lists exactly min(n, 50) entries, numbered from 1, and entry k  *)
(* is the k-th note in the order the Notes application emitted them.       *)
ListTruncates ==
    pc = "done" =>
        LET n     == Len(notes)
            m     == IF n < 50 THEN n ELSE 50
            text  == result.value
            ids   == {p \in 1..Len(text) : text[p] = "   ID: "}
            nth(k) == CHOOSE p \in ids : Cardinality({q \in ids : q < p}) = k - 1
        IN /\ Cardinality(ids) = m
           /\ n > 0 => SubSeq(text, 1, 2 + Len(Str(m))) =
                          <<"Found ">> \o Str(m) \o <<" note(s) in Claude Diary:">>
           /\ \A k \in 1..m :
                 LET title == Str(k) \o <<".", " ", DQ>> \o notes[k].name \o <<DQ, NL>>
                     id    == notes[k].id \o <<NL>>
                 IN /\ SubSeq(text, nth(k) - Len(title), nth(k) - 1) = title
                    /\ SubSeq(text, nth(k) + 1, nth(k) + Len(id)) = id

ListTruncatesWitness ==
    /\ pc = "done"
    /\ Len(notes) = 75
    /\ Cardinality({p \in 1..Len(result.value) : result.value[p] = "   ID: "}) = 50

=============================================================================
